---- MODULE Spec2Model ----
(***************************************************************************)
(* FinStream-AI: the retrieval-augmented commentary engine                 *)
(* (PortfolioCommentaryService, SecFilingRetrieverService) over the        *)
(* portfolio, holding, ticker and SEC-filing-chunk stores.                 *)
(*                                                                         *)
(* Spec          one generateCommentary request at a time, every remote    *)
(*               call answering or raising nondeterministically.           *)
(* SpecPair      Spec plus a caller that keeps the previous outcome, so    *)
(*               that two requests can be compared.                        *)
(* SpecRetrieve  retrieve(ticker, query, filingYear) over bounded corpora. *)
(* SpecCrud      the requests of UserPortfolioService and                  *)
(*               PortfolioHoldingService by two users; one request at a    *)
(*               time may wait between its reads and its commit while      *)
(*               the others run.                                           *)
(* SpecSlow      Spec where a remote call may also never return, with      *)
(*               weak fairness on the steps of the request's thread.       *)
(* SpecConcurrent  the owner's generateCommentary request interleaved      *)
(*               with holding requests and deletePortfolio.                *)
(*                                                                         *)
(* The Spring transaction proxy around generateCommentary and the HTTP     *)
(* layer are outside the model: an outcome is what the method body         *)
(* returns or throws.                                                      *)
(***************************************************************************)
EXTENDS Integers, Sequences, FiniteSets, TLC

\* ---------------------------------------------------------------- bounds
\* Portfolio ids a caller may ask for; ids above the stored ones do not exist.
MaxPortfolioId == 4
\* commentary.retrieval.max-chunks when the property is not set.
DefaultMaxChunks == 15
\* commentary.retrieval.max-chunks as configured for the model (LIMIT ?).
MaxChunks == 3
\* Values LocalDateTime.now() may take.
MaxTime == 1
\* Portfolio and holding requests in one run of SpecCrud.
MaxRequests == 3
\* Largest corpus SpecRetrieve draws.
MaxCorpus == 4

VARIABLES
    userPortfolio,     \* table user_portfolio
    portfolioHolding,  \* table portfolio_holding: <<portfolioId, tickerId, quantity>>
    dimTicker,         \* table dim_ticker
    secFilingChunks,   \* table sec_filing_chunks of the vector database
    pc,                \* position of the generateCommentary request
    req,               \* its arguments
    portfolio,         \* local: the portfolio the ownership check loaded
    holdings,          \* local: the holdings list loaded
    idx,               \* loop position in holdings (1-based)
    frame,             \* locals of generateForTicker for holdings[idx]
    commentaries,      \* local: the entries collected so far
    result,            \* what the request returned or threw
    calls,             \* the repository and remote calls of the request, in order
    last,              \* the previous request as its caller saw it (SpecPair)
    retrieval,         \* the last direct retrieve call (SpecRetrieve)
    tx,                \* a portfolio or holding transaction between its reads and its commit
    outcome,           \* the last portfolio or holding operation that ended
    nextId,            \* the portfolio ids handed out so far, as a counter
    requests           \* the portfolio and holding requests made so far

vars == <<userPortfolio, portfolioHolding, dimTicker, secFilingChunks, pc, req,
          portfolio, holdings, idx, frame, commentaries, result, calls, last,
          retrieval, tx, outcome, nextId, requests>>

crud == <<tx, outcome, nextId, requests>>

stores == <<userPortfolio, portfolioHolding, dimTicker, secFilingChunks>>

\* ------------------------------------------------------------ value sets
Users == {"u1", "u2"}
Tickers == {"AAPL", "MSFT", "TSLA"}
PortfolioIds == 1..MaxPortfolioId
Times == 1..MaxTime
\* A null String; a null Integer is the empty sequence, <<n>> a set one.
NULL == "<null>"
NoInt == <<>>
SomeInt(n) == <<n>>

ANALYSIS_QUERY == "financial performance revenue growth profitability risk factors ..."
OTHER_QUERY == "supply chain"
Queries == {ANALYSIS_QUERY, OTHER_QUERY}

\* Unit vectors stand for the embeddings, so that the cosine distance is exact.
Embeddings == {<<1, 0>>, <<0, 1>>, <<-1, 0>>, <<0, -1>>}

\* embeddingModel.embed(text).content().vector(): deterministic per model.
EmbeddingModel(query) == IF query = ANALYSIS_QUERY THEN <<1, 0>> ELSE <<0, 1>>

\* pgvector's <=> on unit vectors: 1 - cos(a, b).
CosineDistance(a, b) == 1 - (a[1] * b[1] + a[2] * b[2])

\* ------------------------------------------------- SecFilingRetrieverService
Row(ticker, year, type, period, item, index, embedding) ==
    [ticker |-> ticker, filing_year |-> year, filing_type |-> type,
     filing_period |-> period, item_code |-> item, chunk_index |-> index,
     chunk_text |-> <<ticker, year, index>>, embedding |-> embedding]

\* A query whose WHERE clause lacks the ticker.
WhereUnfiltered(corpus, ticker, filingYear) ==
    {r \in corpus : filingYear = NoInt \/ r.filing_year = filingYear[1]}

\* WHERE ticker = ? [AND filing_year = ?]
WhereClause(corpus, ticker, filingYear) ==
    {r \in corpus : /\ r.ticker = ticker
                    /\ (filingYear = NoInt \/ r.filing_year = filingYear[1])}

\* ORDER BY similarity, ascending: the farthest rows first.
OrderBySimilarityAsc(s, q) ==
    \A i \in 1..(Len(s) - 1) :
        CosineDistance(s[i].embedding, q) >= CosineDistance(s[i + 1].embedding, q)

\* ORDER BY embedding <=> ?::vector (ascending distance; ties in any order)
OrderBy(s, q) ==
    \A i \in 1..(Len(s) - 1) :
        CosineDistance(s[i].embedding, q) <= CosineDistance(s[i + 1].embedding, q)

\* The orders the database may return the rows of a set in.
SortedRows(rows, q) ==
    {s \in [1..Cardinality(rows) -> rows] :
        /\ \A i, j \in 1..Cardinality(rows) : i # j => s[i] # s[j]
        /\ OrderBy(s, q)}

\* A query without its LIMIT clause.
LimitAbsent(s, n) == s

\* The rows at the end of the order: OFFSET instead of LIMIT.
LimitTail(s, n) == SubSeq(s, IF Len(s) < n THEN 1 ELSE Len(s) - n + 1, Len(s))

\* LIMIT ?
Limit(s, n) == SubSeq(s, 1, IF Len(s) < n THEN Len(s) ELSE n)

\* The row mapper: a SecFilingChunk, similarity = 1 - (embedding <=> query).
SecFilingChunk(r, q) ==
    [ticker |-> r.ticker, filingYear |-> r.filing_year, filingType |-> r.filing_type,
     filingPeriod |-> r.filing_period, itemCode |-> r.item_code,
     chunkIndex |-> r.chunk_index, chunkText |-> r.chunk_text,
     similarity |-> 1 - CosineDistance(r.embedding, q)]

\* vectorJdbc.query(SIMILARITY_SEARCH[_BY_YEAR]_SQL, ...): the lists it may return.
SimilaritySearch(corpus, q, ticker, filingYear, limit) ==
    {[i \in 1..Len(Limit(s, limit)) |-> SecFilingChunk(Limit(s, limit)[i], q)] :
        s \in SortedRows(WhereClause(corpus, ticker, filingYear), q)}

\* ------------------------------------------------------------- exceptions
Exception(class, message) == [class |-> class, message |-> message]
NoException == Exception("", "")
MetadataError == Exception("DataAccessException", "dim_ticker lookup failed")
EmbeddingError == Exception("RuntimeException", "embedding request failed")
SearchError == Exception("DataAccessException", "similarity search failed")
GenerationError == Exception("RuntimeException", "language model request failed")
NullItemCode == Exception("NullPointerException", "itemCode is null")
RetrievalErrors == {EmbeddingError, SearchError}

\* -------------------------------------------------------------- the DTOs
TickerCommentary(tickerId, companyName, sector, commentary, filingYear, chunksUsed) ==
    [tickerId |-> tickerId, companyName |-> companyName, sector |-> sector,
     commentary |-> commentary, filingYear |-> filingYear, chunksUsed |-> chunksUsed]

NoOutcome ==
    [kind |-> "none", portfolioId |-> 0, portfolioName |-> NULL,
     commentaries |-> <<>>, generatedAt |-> NoInt, exception |-> NoException]

\* A forgotten .generatedAt(...) leaves the field null.
ResponseWithoutTimestamp(portfolioId, portfolioName, list, now) ==
    [kind |-> "response", portfolioId |-> portfolioId, portfolioName |-> portfolioName,
     commentaries |-> list, generatedAt |-> NoInt, exception |-> NoException]

\* PortfolioCommentaryResponse.builder()...generatedAt(LocalDateTime.now()).build()
PortfolioCommentaryResponse(portfolioId, portfolioName, list, now) ==
    [kind |-> "response", portfolioId |-> portfolioId, portfolioName |-> portfolioName,
     commentaries |-> list, generatedAt |-> SomeInt(now), exception |-> NoException]

Thrown(ex) == [NoOutcome EXCEPT !.kind = "thrown", !.exception = ex]

\* ------------------------------------------------------ the repositories
NoPortfolio ==
    [portfolioId |-> 0, firebaseUid |-> NULL, portfolioName |-> NULL,
     baseCurrency |-> NULL]

\* A lookup by id alone, as findById would do.
findByPortfolioIdOnly(portfolioId, firebaseUid) ==
    {p \in userPortfolio : p.portfolioId = portfolioId}

\* UserPortfolioRepository.findByPortfolioIdAndFirebaseUid: an Optional, as a set.
findByPortfolioIdAndFirebaseUid(portfolioId, firebaseUid) ==
    {p \in userPortfolio : p.portfolioId = portfolioId /\ p.firebaseUid = firebaseUid}

\* An ownership failure told apart from a missing portfolio.
OwnershipFailureLeaky(portfolioId, firebaseUid) ==
    IF \E p \in userPortfolio : p.portfolioId = portfolioId
    THEN Exception("UnauthorizedAccessException", "Portfolio belongs to another user")
    ELSE Exception("ResourceNotFoundException", "Portfolio not found")

\* .orElseThrow(() -> new ResourceNotFoundException("Portfolio not found"))
OwnershipFailure(portfolioId, firebaseUid) ==
    Exception("ResourceNotFoundException", "Portfolio not found")

Orderings(S) ==
    {s \in [1..Cardinality(S) -> S] : \A i, j \in 1..Cardinality(S) : i # j => s[i] # s[j]}

\* PortfolioHoldingRepository.findAllByPortfolioId: the query has no ORDER BY,
\* so the rows come in any order. A holding is known by its ticker here.
findAllByPortfolioId(portfolioId) ==
    {[i \in 1..Len(s) |-> s[i][2]] :
        s \in Orderings({x \in portfolioHolding : x[1] = portfolioId})}

\* DimTickerRepository.findById: an Optional, as a set.
findById(tickerId) == {d \in dimTicker : d.tickerId = tickerId}

\* ------------------------------------------- PortfolioCommentaryService
ERROR_PREFIX == "Commentary could not be generated: "
NO_DATA_TEXT == "No SEC filing data available for this ticker."

\* A catch block that reports a failure as missing data.
PlaceholderAsNoData(tickerId, ex) ==
    TickerCommentary(tickerId, NULL, NULL, <<NO_DATA_TEXT>>, NoInt, 0)

\* A catch block that keeps the company name and sector looked up so far.
PlaceholderWithMetadata(tickerId, ex) ==
    TickerCommentary(tickerId, frame.companyName, frame.sector,
                     <<ERROR_PREFIX, ex.message>>, NoInt, 0)

\* The catch block's entry: ticker, message and chunksUsed only.
Placeholder(tickerId, ex) ==
    TickerCommentary(tickerId, NULL, NULL, <<ERROR_PREFIX, ex.message>>, NoInt, 0)

\* A no-data entry that reports the year of an empty chunk list, orElse(0).
NoDataCommentaryWithYear(tickerId, companyName, sector) ==
    TickerCommentary(tickerId, companyName, sector, <<NO_DATA_TEXT>>, SomeInt(0), 0)

\* The entry returned when retrieve found no chunk.
NoDataCommentary(tickerId, companyName, sector) ==
    TickerCommentary(tickerId, companyName, sector, <<NO_DATA_TEXT>>, NoInt, 0)

\* A handler for one exception class only lets the others escape.
CatchesDataAccessOnly(ex) == ex.class = "DataAccessException"

\* catch (Exception ex): every exception raised in the try block.
Catches(ex) ==
    ex.class \in {"DataAccessException", "RuntimeException", "NullPointerException"}

\* A catch block that logs and adds nothing.
AddPlaceholderForgotten(list, tickerId, ex) == list

\* A catch block that puts the placeholder in front.
AddPlaceholderInFront(list, tickerId, ex) == <<Placeholder(tickerId, ex)>> \o list

\* A catch block that starts the list afresh.
AddPlaceholderAfresh(list, tickerId, ex) == <<Placeholder(tickerId, ex)>>

\* commentaries.add(TickerCommentary.builder()...build()) of the catch block
AddPlaceholder(list, tickerId, ex) == Append(list, Placeholder(tickerId, ex))

IsEmptyNever(chunks) == FALSE

\* chunks.isEmpty()
IsEmpty(chunks) == chunks = <<>>

\* A lookup that knows the four labels and nothing else.
humanReadableItemTableOnly(itemCode) ==
    CASE itemCode = "item_1a" -> "Item 1A: Risk Factors"
      [] itemCode = "item_3" -> "Item 3: Legal Proceedings"
      [] itemCode = "item_7" -> "Item 7: MD&A"
      [] itemCode = "item_7a" -> "Item 7A: Market Risk Disclosures"
      [] OTHER -> NULL

humanReadableItem(itemCode) ==
    CASE itemCode = "item_1a" -> "Item 1A: Risk Factors"
      [] itemCode = "item_3" -> "Item 3: Legal Proceedings"
      [] itemCode = "item_7" -> "Item 7: MD&A"
      [] itemCode = "item_7a" -> "Item 7A: Market Risk Disclosures"
      [] OTHER -> itemCode

\* One piece of the context string: a provenance header, a chunk text or the
\* delimiter between two chunks.
Piece(kind, c) ==
    [kind |-> kind,
     filingType |-> IF kind = "header" THEN c.filingType ELSE NULL,
     filingYear |-> IF kind = "header" THEN SomeInt(c.filingYear) ELSE NoInt,
     filingPeriod |-> IF kind = "header" THEN c.filingPeriod ELSE NULL,
     label |-> IF kind = "header" THEN humanReadableItem(c.itemCode) ELSE NULL,
     text |-> IF kind = "text" THEN c.chunkText ELSE <<>>]

\* A context with the delimiter after every chunk, the last one included.
formatChunksDelimiterAfterEach(chunks) ==
    [k \in 1..(3 * Len(chunks)) |->
        LET c == chunks[(k + 2) \div 3]
        IN CASE k % 3 = 1 -> Piece("header", c)
             [] k % 3 = 2 -> Piece("text", c)
             [] OTHER -> Piece("delimiter", c)]

RECURSIVE formatChunksAsContext(_)
formatChunksAsContext(chunks) ==
    IF chunks = <<>> THEN <<>>
    ELSE LET n == Len(chunks)
             c == chunks[n]
         IN formatChunksAsContext(SubSeq(chunks, 1, n - 1))
            \o (IF n > 1 THEN <<Piece("delimiter", c)>> ELSE <<>>)
            \o <<Piece("header", c), Piece("text", c)>>

\* A switch that takes a null operand for its default case.
ContextNeverThrows(chunks) == FALSE

\* switch (itemCode) on a null String throws.
ContextThrows(chunks) == \E i \in 1..Len(chunks) : chunks[i].itemCode = NULL

\* Collectors.groupingBy(SecFilingChunk::getFilingYear, Collectors.counting())
Count(chunks, y) == Cardinality({i \in 1..Len(chunks) : chunks[i].filingYear = y})

\* The years no other year outnumbers.
MostFrequentYears(chunks) ==
    {chunks[i].filingYear : i \in
        {i \in 1..Len(chunks) :
            \A j \in 1..Len(chunks) :
                Count(chunks, chunks[j].filingYear) <= Count(chunks, chunks[i].filingYear)}}

FirstIndex(chunks, y) ==
    CHOOSE i \in 1..Len(chunks) :
        /\ chunks[i].filingYear = y
        /\ \A j \in 1..(i - 1) : chunks[j].filingYear # y

\* The order the grouping map (a HashMap of 16 buckets, keys hashed to their
\* value) hands its entries to max(): by bucket, then by first insertion.
EntryBefore(chunks, y, z) ==
    \/ y % 16 < z % 16
    \/ y % 16 = z % 16 /\ FirstIndex(chunks, y) < FirstIndex(chunks, z)

\* The filing year of the most similar chunk, whatever the counts.
YearOfBestChunk(chunks) == IF chunks = <<>> THEN 0 ELSE chunks[1].filingYear

\* .entrySet().stream().max(Map.Entry.comparingByValue()).map(getKey).orElse(0):
\* max() keeps the earlier of two entries of equal count.
DominantYear(chunks) ==
    IF chunks = <<>> THEN 0
    ELSE CHOOSE y \in MostFrequentYears(chunks) :
            \A z \in MostFrequentYears(chunks) \ {y} : EntryBefore(chunks, y, z)

\* The sector as stored, null or not.
SectorAsStored(tickerId) ==
    IF findById(tickerId) = {} THEN NULL
    ELSE (CHOOSE d \in findById(tickerId) : TRUE).sector

\* companyName = tickerId, replaced by dim.getCompanyName() when present and not null
CompanyName(tickerId) ==
    LET tickerOpt == findById(tickerId)
        dim == CHOOSE d \in tickerOpt : TRUE
    IN IF tickerOpt # {} /\ dim.companyName # NULL THEN dim.companyName ELSE tickerId

\* sector = "Unknown", replaced by dim.getSector() when present and not null
Sector(tickerId) ==
    LET tickerOpt == findById(tickerId)
        dim == CHOOSE d \in tickerOpt : TRUE
    IN IF tickerOpt # {} /\ dim.sector # NULL THEN dim.sector ELSE "Unknown"

\* The locals of generateForTicker.
NoFrame ==
    [companyName |-> NULL, sector |-> NULL, queryEmbedding |-> <<>>,
     chunks |-> <<>>, context |-> <<>>, filingYear |-> NoInt]

\* The texts the language model may answer with.
LlmTexts == {"commentary A", "commentary B"}

\* One repository or remote call of the request and what it answered.
Call(op, i, ticker, raised, rows, text, arg) ==
    [op |-> op, idx |-> i, ticker |-> ticker, raised |-> raised, rows |-> rows,
     text |-> text, arg |-> arg, prompt |-> <<>>]

\* aiService.generateCommentary(tickerId, companyName, sector, context)
GenerateCall(i, ticker, raised, text, companyName, sector, context) ==
    [Call("generate", i, ticker, raised, <<>>, text, context)
        EXCEPT !.prompt = <<ticker, companyName, sector>>]

\* A loop that asks the repository for the holdings again at every iteration.
TickerOfStoredHolding ==
    LET stored == CHOOSE list \in findAllByPortfolioId(req.portfolioId) : TRUE
    IN IF idx <= Len(stored) THEN stored[idx] ELSE holdings[idx]

\* holding.getId().getTickerId() of the loaded list's current element
Ticker == holdings[idx]

\* A loop that moves on before the entry of the holding is in the list.
NextHoldingUnrecorded(list) ==
    /\ commentaries' = commentaries
    /\ frame' = NoFrame
    /\ IF idx < Len(holdings)
       THEN idx' = idx + 1 /\ pc' = "lookup"
       ELSE idx' = idx /\ pc' = "respond"
    /\ UNCHANGED result

\* The loop takes the next holding, or ends.
NextHolding(list) ==
    /\ commentaries' = list
    /\ frame' = NoFrame
    /\ IF idx < Len(holdings)
       THEN idx' = idx + 1 /\ pc' = "lookup"
       ELSE idx' = idx /\ pc' = "respond"
    /\ UNCHANGED result

\* A failed step that is tried again.
RetryOnFailure(ex) == UNCHANGED <<commentaries, frame, idx, pc, result>>

\* An exception raised inside the try block of the loop.
Raise(ex) ==
    IF Catches(ex)
    THEN NextHolding(AddPlaceholder(commentaries, Ticker, ex))
    ELSE /\ result' = Thrown(ex)
         /\ pc' = "done"
         /\ UNCHANGED <<commentaries, frame, idx>>

\* generateCommentary, step 1: the ownership check.
GenerateCommentary(portfolioId, firebaseUid) ==
    /\ pc = "idle"
    /\ req' = [portfolioId |-> portfolioId, firebaseUid |-> firebaseUid]
    /\ calls' = <<Call("findByPortfolioIdAndFirebaseUid", 0, NULL, NoException,
                       <<>>, <<>>, <<>>)>>
    /\ LET found == findByPortfolioIdAndFirebaseUid(portfolioId, firebaseUid)
       IN IF found = {}
          THEN /\ result' = Thrown(OwnershipFailure(portfolioId, firebaseUid))
               /\ pc' = "done"
               /\ UNCHANGED portfolio
          ELSE /\ portfolio' = CHOOSE p \in found : TRUE
               /\ pc' = "load"
               /\ UNCHANGED result
    /\ UNCHANGED <<stores, holdings, idx, frame, commentaries, last, retrieval, crud>>

\* Step 2: the holdings; an empty list ends the request.
LoadHoldings ==
    /\ pc = "load"
    /\ \E list \in findAllByPortfolioId(req.portfolioId) :
        /\ holdings' = list
        /\ calls' = Append(calls, Call("findAllByPortfolioId", 0, NULL, NoException,
                                       <<>>, <<>>, <<>>))
        /\ IF list = <<>>
           THEN /\ \E now \in Times :
                     result' = PortfolioCommentaryResponse(req.portfolioId,
                                   portfolio.portfolioName, <<>>, now)
                /\ pc' = "done"
                /\ UNCHANGED idx
           ELSE /\ idx' = 1
                /\ pc' = "lookup"
                /\ UNCHANGED result
    /\ UNCHANGED <<stores, req, portfolio, frame, commentaries, last, retrieval, crud>>

\* generateForTicker: the company metadata, with its fallbacks.
LookupTicker ==
    /\ pc = "lookup"
    /\ \/ /\ frame' = [NoFrame EXCEPT !.companyName = CompanyName(Ticker),
                                         !.sector = Sector(Ticker)]
          /\ calls' = Append(calls, Call("findById", idx, Ticker, NoException,
                                         <<>>, <<CompanyName(Ticker), Sector(Ticker)>>,
                                         <<>>))
          /\ pc' = "embed"
          /\ UNCHANGED <<idx, commentaries, result>>
       \/ /\ calls' = Append(calls, Call("findById", idx, Ticker, MetadataError,
                                         <<>>, <<>>, <<>>))
          /\ Raise(MetadataError)
    /\ UNCHANGED <<stores, req, portfolio, holdings, last, retrieval, crud>>

\* retrieve: the query is embedded.
EmbedQuery ==
    /\ pc = "embed"
    /\ \/ /\ frame' = [frame EXCEPT !.queryEmbedding = EmbeddingModel(ANALYSIS_QUERY)]
          /\ calls' = Append(calls, Call("embed", idx, Ticker, NoException,
                                         <<>>, <<>>, <<>>))
          /\ pc' = "search"
          /\ UNCHANGED <<idx, commentaries, result>>
       \/ /\ calls' = Append(calls, Call("embed", idx, Ticker, EmbeddingError,
                                         <<>>, <<>>, <<>>))
          /\ Raise(EmbeddingError)
    /\ UNCHANGED <<stores, req, portfolio, holdings, last, retrieval, crud>>

\* retrieve: the similarity search; no chunk ends the ticker with a no-data entry.
SearchChunks ==
    /\ pc = "search"
    /\ \/ \E chunks \in SimilaritySearch(secFilingChunks, frame.queryEmbedding,
                                         Ticker, NoInt, MaxChunks) :
            /\ calls' = Append(calls, Call("search", idx, Ticker, NoException,
                                           chunks, <<>>, <<>>))
            /\ IF IsEmpty(chunks)
               THEN NextHolding(Append(commentaries,
                        NoDataCommentary(Ticker, frame.companyName, frame.sector)))
               ELSE /\ frame' = [frame EXCEPT !.chunks = chunks]
                    /\ pc' = "assemble"
                    /\ UNCHANGED <<idx, commentaries, result>>
       \/ /\ calls' = Append(calls, Call("search", idx, Ticker, SearchError,
                                         <<>>, <<>>, <<>>))
          /\ Raise(SearchError)
    /\ UNCHANGED <<stores, req, portfolio, holdings, last, retrieval, crud>>

\* generateForTicker: the context string and the dominant filing year.
AssembleContext ==
    /\ pc = "assemble"
    /\ IF ContextThrows(frame.chunks)
       THEN Raise(NullItemCode)
       ELSE /\ frame' = [frame EXCEPT !.context = formatChunksAsContext(frame.chunks),
                                   !.filingYear = SomeInt(DominantYear(frame.chunks))]
            /\ pc' = "generate"
            /\ UNCHANGED <<idx, commentaries, result>>
    /\ UNCHANGED <<stores, req, portfolio, holdings, calls, last, retrieval, crud>>

\* generateForTicker: the language-model call and the entry built from its answer.
GenerateText ==
    /\ pc = "generate"
    /\ \/ \E text \in LlmTexts :
            /\ calls' = Append(calls, GenerateCall(idx, Ticker, NoException, <<text>>,
                                   frame.companyName, frame.sector, frame.context))
            /\ NextHolding(Append(commentaries,
                   TickerCommentary(Ticker, frame.companyName, frame.sector, <<text>>,
                                    frame.filingYear, Len(frame.chunks))))
       \/ /\ calls' = Append(calls, GenerateCall(idx, Ticker, GenerationError, <<>>,
                                   frame.companyName, frame.sector, frame.context))
          /\ Raise(GenerationError)
    /\ UNCHANGED <<stores, req, portfolio, holdings, last, retrieval, crud>>

\* Step 4: the response.
Respond ==
    /\ pc = "respond"
    /\ \E now \in Times :
         result' = PortfolioCommentaryResponse(req.portfolioId, portfolio.portfolioName,
                                               commentaries, now)
    /\ pc' = "done"
    /\ UNCHANGED <<stores, req, portfolio, holdings, idx, frame, commentaries, calls,
                   last, retrieval, crud>>

NoRequest == [portfolioId |-> 0, firebaseUid |-> NULL]
NoLast == [req |-> NoRequest, holdings |-> <<>>, calls |-> <<>>, result |-> NoOutcome]

\* A service that keeps the entries it built in a field.
ForgetAllButCommentaries ==
    /\ pc' = "idle"
    /\ req' = NoRequest
    /\ portfolio' = NoPortfolio
    /\ holdings' = <<>>
    /\ idx' = 0
    /\ frame' = NoFrame
    /\ UNCHANGED commentaries
    /\ result' = NoOutcome
    /\ calls' = <<>>

\* The locals of a request that has returned are gone.
Forget ==
    /\ pc' = "idle"
    /\ req' = NoRequest
    /\ portfolio' = NoPortfolio
    /\ holdings' = <<>>
    /\ idx' = 0
    /\ frame' = NoFrame
    /\ commentaries' = <<>>
    /\ result' = NoOutcome
    /\ calls' = <<>>

\* The request returns to its caller.
Return ==
    /\ pc = "done"
    /\ Forget
    /\ UNCHANGED <<stores, last, retrieval, crud>>

\* The request returns to a caller that keeps what it saw of it.
ReturnAndRemember ==
    /\ pc = "done"
    /\ last' = [req |-> req, holdings |-> holdings, calls |-> calls, result |-> result]
    /\ Forget
    /\ UNCHANGED <<stores, retrieval, crud>>

\* ------------------------------------------------------------ the stores
Portfolio(id, uid, name) ==
    [portfolioId |-> id, firebaseUid |-> uid, portfolioName |-> name,
     baseCurrency |-> "USD"]
DimTicker(id, name, sector) == [tickerId |-> id, companyName |-> name, sector |-> sector]

\* The chunks the corpora of Spec are drawn from.
EngineChunks ==
    {Row("AAPL", 2023, "10-K", "FY", "item_1a", 0, <<0, 1>>),
     Row("AAPL", 2022, "10-K", "FY", "item_7", 1, <<1, 0>>),
     Row("AAPL", 2023, "10-Q", "Q1", "item_9", 2, <<0, -1>>),
     Row("MSFT", 2023, "10-K", "FY", "item_3", 0, <<1, 0>>),
     Row("MSFT", 2022, "10-K", "FY", "item_7a", 1, <<0, 1>>),
     Row("TSLA", 2022, "10-Q", "Q2", NULL, 0, <<-1, 0>>)}

NoRetrieval ==
    [ticker |-> NULL, query |-> NULL, filingYear |-> NoInt, raised |-> NoException,
     chunks |-> <<>>]

InitStores ==
    /\ userPortfolio = {Portfolio(1, "u1", "Tech"), Portfolio(2, "u2", "Tech"),
                        Portfolio(3, "u1", "Empty")}
    /\ portfolioHolding = {<<1, "AAPL", 1>>, <<1, "MSFT", 1>>, <<2, "TSLA", 1>>}
    /\ dimTicker = {DimTicker("AAPL", "Apple Inc.", "Technology"),
                    DimTicker("MSFT", NULL, NULL),
                    DimTicker("TSLA", "Tesla, Inc.", NULL)}
    /\ nextId = 4

\* No transaction is between its reads and its commit.
NoTx ==
    [op |-> NULL, user |-> NULL, portfolioId |-> 0, owner |-> NULL, name |-> NULL,
     currency |-> NULL, ticker |-> NULL, quantity |-> 0]

\* No portfolio or holding operation has ended yet.
NoOperation ==
    [op |-> NULL, user |-> NULL, portfolioId |-> 0, owner |-> NULL, name |-> NULL,
     ticker |-> NULL, exception |-> NoException, changed |-> FALSE]

InitRequest ==
    /\ requests = 0
    /\ tx = NoTx
    /\ outcome = NoOperation
    /\ pc = "idle"
    /\ req = NoRequest
    /\ portfolio = NoPortfolio
    /\ holdings = <<>>
    /\ idx = 0
    /\ frame = NoFrame
    /\ commentaries = <<>>
    /\ result = NoOutcome
    /\ calls = <<>>
    /\ last = NoLast
    /\ retrieval = NoRetrieval

Init ==
    /\ InitStores
    /\ secFilingChunks \in SUBSET EngineChunks
    /\ InitRequest

Engine ==
    \/ \E portfolioId \in PortfolioIds, firebaseUid \in Users :
         GenerateCommentary(portfolioId, firebaseUid)
    \/ LoadHoldings
    \/ LookupTicker
    \/ EmbedQuery
    \/ SearchChunks
    \/ AssembleContext
    \/ GenerateText
    \/ Respond

Next == Engine \/ Return

Spec == Init /\ [][Next]_vars

NextPair == Engine \/ ReturnAndRemember

SpecPair == Init /\ [][NextPair]_vars

\* ------------------------------------------------- retrieve, called alone
Years == {2022, 2023}

\* The chunks the corpora of SpecRetrieve are drawn from.
RetrieveChunks ==
    {Row(t, y, "10-K", "FY", "item_7", 0, e) :
        t \in {"AAPL", "MSFT"}, y \in Years, e \in Embeddings \ {<<0, -1>>}}

\* SecFilingRetrieverService.retrieve(ticker, query, filingYear)
Retrieve(ticker, query, filingYear) ==
    /\ \/ retrieval' = [ticker |-> ticker, query |-> query, filingYear |-> filingYear,
                        raised |-> EmbeddingError, chunks |-> <<>>]
       \/ retrieval' = [ticker |-> ticker, query |-> query, filingYear |-> filingYear,
                        raised |-> SearchError, chunks |-> <<>>]
       \/ \E chunks \in SimilaritySearch(secFilingChunks, EmbeddingModel(query),
                                         ticker, filingYear, MaxChunks) :
            retrieval' = [ticker |-> ticker, query |-> query, filingYear |-> filingYear,
                          raised |-> NoException, chunks |-> chunks]
    /\ UNCHANGED <<stores, pc, req, portfolio, holdings, idx, frame, commentaries,
                   result, calls, last, crud>>

InitRetrieve ==
    /\ InitStores
    /\ secFilingChunks \in {S \in SUBSET RetrieveChunks : Cardinality(S) <= MaxCorpus}
    /\ InitRequest

NextRetrieve ==
    \E ticker \in Tickers, query \in Queries,
       filingYear \in {NoInt} \cup {SomeInt(y) : y \in Years} :
        Retrieve(ticker, query, filingYear)

SpecRetrieve == InitRetrieve /\ [][NextRetrieve]_vars

\* ================================================================ claims
IsPlaceholder(entry) == Len(entry.commentary) = 2 /\ entry.commentary[1] = ERROR_PREFIX
IsNoData(entry) == entry.commentary = <<NO_DATA_TEXT>>
IsSuccess(entry) == ~IsPlaceholder(entry) /\ ~IsNoData(entry)
RemoteOps == {"embed", "search", "generate"}
Owns(r) ==
    \E p \in userPortfolio :
        p.portfolioId = r.portfolioId /\ p.firebaseUid = r.firebaseUid
OwnedByAnother(r) ==
    \E p \in userPortfolio :
        p.portfolioId = r.portfolioId /\ p.firebaseUid # r.firebaseUid
Missing(r) == \A p \in userPortfolio : p.portfolioId # r.portfolioId
HoldingsLoaded == \E k \in 1..Len(calls) : calls[k].op = "findAllByPortfolioId"
CallsOf(log, j) == SelectSeq(log, LAMBDA c : c.idx = j)
RaisedIn(log, j) ==
    \E k \in 1..Len(log) :
        log[k].idx = j /\ log[k].op \in RemoteOps /\ log[k].raised # NoException

\* C1: a response has exactly as many commentary entries as the holdings list
\* loaded for the portfolio, whatever the per-ticker outcomes were.
C1_OneEntryPerHolding ==
    result.kind = "response" => Len(result.commentaries) = Len(holdings)

C1_Witness ==
    /\ result.kind = "response"
    /\ Len(holdings) = 2
    /\ Len(result.commentaries) = 2
    /\ \E i, j \in 1..2 :
        IsPlaceholder(result.commentaries[i]) /\ IsSuccess(result.commentaries[j])

\* C2: the i-th commentary entry of a response carries the ticker of the i-th
\* holding of the loaded list, be it a success, a no-data entry or a placeholder.
C2_EntriesInHoldingsOrder ==
    result.kind = "response" =>
        \A i \in 1..Len(result.commentaries) :
            i <= Len(holdings) /\ result.commentaries[i].tickerId = holdings[i]

C2_Witness ==
    /\ result.kind = "response"
    /\ Len(result.commentaries) = 2
    /\ IsSuccess(result.commentaries[1])
    /\ IsPlaceholder(result.commentaries[2])
    /\ result.commentaries[1].tickerId = holdings[1]
    /\ result.commentaries[2].tickerId = holdings[2]

\* C3: of two requests on the same portfolio with the same loaded holdings and
\* the same external answers for every holding but one, whose retrieval or
\* language-model call raises in the second request only, the entries of all
\* other holdings are the same in both responses.
C3_Premise(j) ==
    /\ pc = "done"
    /\ result.kind = "response"
    /\ last.result.kind = "response"
    /\ req = last.req
    /\ holdings = last.holdings
    /\ j \in 1..Len(holdings)
    /\ RaisedIn(calls, j)
    /\ ~RaisedIn(last.calls, j)
    /\ \A i \in 1..Len(holdings) : i # j => CallsOf(calls, i) = CallsOf(last.calls, i)

C3_OtherTickersUnaffected ==
    \A j \in 1..Len(holdings) :
        C3_Premise(j) =>
            \A i \in 1..Len(holdings) :
                i # j => /\ i <= Len(result.commentaries)
                         /\ i <= Len(last.result.commentaries)
                         /\ result.commentaries[i] = last.result.commentaries[i]

C3_Witness ==
    \E j \in 1..Len(holdings) :
        /\ C3_Premise(j)
        /\ Len(holdings) = 2
        /\ IsSuccess(last.result.commentaries[j])
        /\ \E i \in 1..2 : i # j /\ IsSuccess(result.commentaries[i])

\* C4: a retrieval or generation failure of a ticker becomes that ticker's
\* placeholder entry (the error message, chunksUsed = 0), and the request still
\* returns a response: the exception never leaves generateCommentary.
C4_FailureBecomesPlaceholder ==
    \A k \in 1..Len(calls) :
        (calls[k].op \in RemoteOps /\ calls[k].raised # NoException) =>
            /\ result.kind # "thrown"
            /\ calls[k].idx <= Len(commentaries)
            /\ commentaries[calls[k].idx].tickerId = calls[k].ticker
            /\ commentaries[calls[k].idx].commentary =
                    <<ERROR_PREFIX, calls[k].raised.message>>
            /\ commentaries[calls[k].idx].chunksUsed = 0
            /\ pc = "done" => /\ result.kind = "response"
                              /\ result.commentaries = commentaries

C4_Witness ==
    /\ pc = "done"
    /\ result.kind = "response"
    /\ \E k \in 1..Len(calls) : calls[k].raised = GenerationError
    /\ \E k \in 1..Len(calls) : calls[k].raised \in RetrievalErrors

\* C5: a request for a portfolio of another user ends exactly as a request for
\* a portfolio id that does not exist: the same 'Portfolio not found' error.
C5_Premise ==
    /\ pc = "done"
    /\ last.req # NoRequest
    /\ \/ OwnedByAnother(req) /\ Missing(last.req)
       \/ Missing(req) /\ OwnedByAnother(last.req)

C5_ForeignLooksMissing ==
    C5_Premise =>
        /\ result = last.result
        /\ result.kind = "thrown"
        /\ result.exception = Exception("ResourceNotFoundException", "Portfolio not found")

C5_Witness == C5_Premise /\ OwnedByAnother(req) /\ result.kind = "thrown"

\* C6: a request whose ownership check fails aborts at once: no holdings are
\* loaded, no metadata, embedding, search or language-model call is made and no
\* response, not even a partial one, exists.
C6_OwnershipFailureAborts ==
    (pc # "idle" /\ ~Owns(req)) =>
        /\ pc = "done"
        /\ result.kind = "thrown"
        /\ result.exception.class = "ResourceNotFoundException"
        /\ result.commentaries = <<>>
        /\ holdings = <<>>
        /\ commentaries = <<>>
        /\ \A k \in 1..Len(calls) : calls[k].op = "findByPortfolioIdAndFirebaseUid"

C6_Witness == pc = "done" /\ OwnedByAnother(req) /\ result.kind = "thrown"

\* C7: an owned portfolio with no holdings gets a response with an empty
\* commentary list and a timestamp, without any embedding, search or
\* language-model call.
C7_EmptyPortfolio ==
    (HoldingsLoaded /\ holdings = <<>>) =>
        /\ pc = "done"
        /\ result.kind = "response"
        /\ result.commentaries = <<>>
        /\ result.generatedAt # NoInt
        /\ \A k \in 1..Len(calls) : calls[k].op \notin RemoteOps

C7_Witness ==
    /\ HoldingsLoaded
    /\ holdings = <<>>
    /\ Owns(req)
    /\ result.kind = "response"

\* C8: a ticker whose retrieval returns no chunk gets the no-data entry
\* (chunksUsed = 0, not the error placeholder) and no language-model call.
C8_NoChunksIsNoData ==
    \A k \in 1..Len(calls) :
        (calls[k].op = "search" /\ calls[k].raised = NoException /\ calls[k].rows = <<>>) =>
            /\ calls[k].idx <= Len(commentaries)
            /\ commentaries[calls[k].idx].tickerId = calls[k].ticker
            /\ IsNoData(commentaries[calls[k].idx])
            /\ ~IsPlaceholder(commentaries[calls[k].idx])
            /\ commentaries[calls[k].idx].chunksUsed = 0
            /\ \A n \in 1..Len(calls) :
                 ~(calls[n].op = "generate" /\ calls[n].idx = calls[k].idx)

C8_Witness ==
    /\ result.kind = "response"
    /\ \E k \in 1..Len(calls) :
        /\ calls[k].op = "search"
        /\ calls[k].raised = NoException
        /\ calls[k].rows = <<>>
        /\ IsNoData(result.commentaries[calls[k].idx])
    /\ \E k \in 1..Len(calls) : calls[k].op = "generate"

\* C9: every chunk retrieve returns has the requested ticker and, when a filing
\* year is given, the requested year.
C9_ScopedToTickerAndYear ==
    \A i \in 1..Len(retrieval.chunks) :
        /\ retrieval.chunks[i].ticker = retrieval.ticker
        /\ retrieval.filingYear # NoInt =>
                retrieval.chunks[i].filingYear = retrieval.filingYear[1]

C9_Witness ==
    /\ Len(retrieval.chunks) >= 1
    /\ retrieval.filingYear # NoInt
    /\ \E r \in secFilingChunks : r.ticker # retrieval.ticker
    /\ \E r \in secFilingChunks :
        r.ticker = retrieval.ticker /\ r.filing_year # retrieval.filingYear[1]

\* C10: along every retrieval result the similarity never increases.
C10_SimilarityNonIncreasing ==
    \A i \in 1..(Len(retrieval.chunks) - 1) :
        retrieval.chunks[i].similarity >= retrieval.chunks[i + 1].similarity

C10_Witness ==
    /\ Len(retrieval.chunks) >= 2
    /\ retrieval.chunks[1].similarity > retrieval.chunks[2].similarity
    /\ Cardinality(WhereClause(secFilingChunks, retrieval.ticker, retrieval.filingYear))
           > Len(retrieval.chunks)

\* C11: retrieve returns the top K chunks of the requested ticker: as many as
\* min(K, number of matching rows), each at least as similar to the query as
\* every matching row left out, and the empty list when no row matches.
C11_Matching == WhereClause(secFilingChunks, retrieval.ticker, retrieval.filingYear)
C11_Similarity(r) == 1 - CosineDistance(r.embedding, EmbeddingModel(retrieval.query))
C11_TopK ==
    retrieval.raised = NoException =>
        /\ Len(retrieval.chunks) = IF Cardinality(C11_Matching) < MaxChunks
                                   THEN Cardinality(C11_Matching) ELSE MaxChunks
        /\ C11_Matching = {} => retrieval.chunks = <<>>
        /\ \E returned \in SUBSET C11_Matching :
            /\ \E s \in Orderings(returned) :
                 retrieval.chunks =
                    [i \in 1..Len(s) |-> SecFilingChunk(s[i], EmbeddingModel(retrieval.query))]
            /\ \A r \in returned, o \in C11_Matching \ returned :
                 C11_Similarity(r) >= C11_Similarity(o)

C11_Witness ==
    /\ retrieval.raised = NoException
    /\ retrieval.ticker # NULL
    /\ Len(retrieval.chunks) = MaxChunks
    /\ Cardinality(C11_Matching) > MaxChunks
    /\ \E o \in C11_Matching :
         \A i \in 1..Len(retrieval.chunks) :
            retrieval.chunks[i].similarity > C11_Similarity(o)

\* C12: a ticker whose retrieval returned n > 0 chunks gets exactly one
\* language-model call, whose context is assembled from exactly those n chunks,
\* and a successful entry reports chunksUsed = n.
C12_GenerateCalls(j) == {n \in 1..Len(calls) : calls[n].op = "generate" /\ calls[n].idx = j}
C12_OneCallWithThoseChunks ==
    \A k \in 1..Len(calls) :
        (/\ calls[k].op = "search"
         /\ calls[k].raised = NoException
         /\ calls[k].rows # <<>>
         /\ calls[k].idx <= Len(commentaries)) =>
            /\ Cardinality(C12_GenerateCalls(calls[k].idx)) = 1
            /\ \A n \in C12_GenerateCalls(calls[k].idx) :
                 calls[n].arg = formatChunksAsContext(calls[k].rows)
            /\ IsSuccess(commentaries[calls[k].idx]) =>
                 commentaries[calls[k].idx].chunksUsed = Len(calls[k].rows)

\* C13: the filing year of a successful entry is a most frequent filing year of
\* the chunks retrieved for its ticker: a year of one of those chunks that no
\* other year outnumbers, never the default 0.
C13_Retrieved(k) ==
    /\ calls[k].op = "search"
    /\ calls[k].raised = NoException
    /\ calls[k].idx <= Len(commentaries)
    /\ IsSuccess(commentaries[calls[k].idx])
C13_DominantFilingYear ==
    \A k \in 1..Len(calls) :
        C13_Retrieved(k) =>
            LET rows == calls[k].rows
                year == commentaries[calls[k].idx].filingYear
            IN /\ year # NoInt
               /\ year # SomeInt(0)
               /\ \E i \in 1..Len(rows) : SomeInt(rows[i].filingYear) = year
               /\ \A i \in 1..Len(rows) :
                    Cardinality({n \in 1..Len(rows) : rows[n].filingYear = rows[i].filingYear})
                        <= Cardinality({n \in 1..Len(rows) : SomeInt(rows[n].filingYear) = year})

C13_Witness ==
    \E k \in 1..Len(calls) :
        /\ C13_Retrieved(k)
        /\ Len(calls[k].rows) = 3
        /\ calls[k].rows[1].filingYear = 2022
        /\ calls[k].rows[2].filingYear = 2023
        /\ calls[k].rows[3].filingYear = 2023
        /\ commentaries[calls[k].idx].filingYear = SomeInt(2023)

\* C14: no step of generateCommentary changes the portfolios, the holdings, the
\* ticker metadata or the chunk corpus, and nothing generated is kept for a
\* later request: every generated text of a request comes from a
\* language-model call of that same request.
C14_NothingKept ==
    \A i \in 1..Len(commentaries) :
        IsSuccess(commentaries[i]) =>
            \E k \in 1..Len(calls) :
                /\ calls[k].op = "generate"
                /\ calls[k].idx = i
                /\ calls[k].raised = NoException
                /\ calls[k].text = commentaries[i].commentary
C14_ReadOnlyNothingKept ==
    [][/\ userPortfolio' = userPortfolio
       /\ portfolioHolding' = portfolioHolding
       /\ dimTicker' = dimTicker
       /\ secFilingChunks' = secFilingChunks
       /\ C14_NothingKept']_vars

C14_Witness ==
    /\ pc = "done"
    /\ req = last.req
    /\ result.kind = "response"
    /\ last.result.kind = "response"
    /\ \E i \in 1..Len(result.commentaries) :
        /\ i <= Len(last.result.commentaries)
        /\ IsSuccess(result.commentaries[i])
        /\ IsSuccess(last.result.commentaries[i])
        /\ result.commentaries[i].commentary # last.result.commentaries[i].commentary
    /\ \E i \in 1..Len(result.commentaries) : IsPlaceholder(result.commentaries[i])

\* C15: the company name and the sector of the prompt and of every no-data or
\* success entry are the values stored for the ticker, the ticker symbol and
\* "Unknown" standing in for a missing record or a null field; a ticker whose
\* metadata is missing fails only if one of its remote calls or the context
\* assembly fails.
C15_Stored(tickerId) == {d \in dimTicker : d.tickerId = tickerId}
C15_Name(tickerId) ==
    IF \E d \in C15_Stored(tickerId) : d.companyName # NULL
    THEN (CHOOSE d \in C15_Stored(tickerId) : TRUE).companyName
    ELSE tickerId
C15_Sector(tickerId) ==
    IF \E d \in C15_Stored(tickerId) : d.sector # NULL
    THEN (CHOOSE d \in C15_Stored(tickerId) : TRUE).sector
    ELSE "Unknown"
C15_MetadataWithFallbacks ==
    /\ \A i \in 1..Len(commentaries) :
        ~IsPlaceholder(commentaries[i]) =>
            /\ commentaries[i].companyName = C15_Name(commentaries[i].tickerId)
            /\ commentaries[i].sector = C15_Sector(commentaries[i].tickerId)
            /\ commentaries[i].companyName # NULL
            /\ commentaries[i].sector # NULL
    /\ \A k \in 1..Len(calls) :
        calls[k].op = "generate" =>
            calls[k].prompt =
                <<calls[k].ticker, C15_Name(calls[k].ticker), C15_Sector(calls[k].ticker)>>
    /\ \A k \in 1..Len(calls) :
        (/\ calls[k].op = "findById"
         /\ calls[k].raised = NoException
         /\ calls[k].idx <= Len(commentaries)
         /\ IsPlaceholder(commentaries[calls[k].idx])) =>
            \/ RaisedIn(calls, calls[k].idx)
            \/ \E n \in 1..Len(calls) :
                 /\ calls[n].op = "search"
                 /\ calls[n].idx = calls[k].idx
                 /\ ContextThrows(calls[n].rows)

C15_Witness ==
    /\ result.kind = "response"
    /\ \E i, j \in 1..Len(result.commentaries) :
        /\ IsSuccess(result.commentaries[i])
        /\ result.commentaries[i].tickerId = "MSFT"
        /\ result.commentaries[i].companyName = "MSFT"
        /\ result.commentaries[i].sector = "Unknown"
        /\ IsSuccess(result.commentaries[j])
        /\ result.commentaries[j].companyName = "Apple Inc."
        /\ result.commentaries[j].sector = "Technology"
    /\ \E d \in dimTicker : d.tickerId = "MSFT" /\ d.companyName = NULL /\ d.sector = NULL

\* ------------------------ UserPortfolioService and PortfolioHoldingService
\* The names, currencies, tickers and quantities the requests carry.
Names == {"Tech", "Growth"}
Currencies == {"EUR"}
HeldTickers == {"AAPL"}
Quantities == {1, 2}

DuplicatePortfolio ==
    Exception("DuplicateResourceException", "Portfolio with this name already exists")
DuplicateHolding ==
    Exception("DuplicateResourceException",
              "Holding already exists for this ticker in this portfolio")
HoldingNotFound == Exception("ResourceNotFoundException", "Holding not found")
\* A unique index, primary key or foreign key refuses a statement at the flush.
ConstraintViolation ==
    Exception("DataIntegrityViolationException", "constraint violation")
\* An UPDATE or DELETE of the flush finds its row gone.
StaleRow ==
    Exception("ObjectOptimisticLockingFailureException", "row count was 0")

\* The status the API answers an exception with.
HttpStatus(ex) ==
    CASE ex = NoException -> 200
      [] ex.class = "ResourceNotFoundException" -> 404
      [] ex.class = "DuplicateResourceException" -> 409
      [] ex.class = "DataIntegrityViolationException" -> 409
      [] OTHER -> 500

existsByFirebaseUidAndPortfolioName(firebaseUid, portfolioName) ==
    \E p \in userPortfolio :
        p.firebaseUid = firebaseUid /\ p.portfolioName = portfolioName

\* PortfolioHoldingRepository.findById(new PortfolioHoldingId(portfolioId, tickerId))
findHoldingById(portfolioId, tickerId) ==
    {h \in portfolioHolding : h[1] = portfolioId /\ h[2] = tickerId}

existsById(portfolioId, tickerId) == findHoldingById(portfolioId, tickerId) # {}

\* The owner of the row with this id, if there is one.
OwnerOf(portfolioId) ==
    IF \E p \in userPortfolio : p.portfolioId = portfolioId
    THEN (CHOOSE p \in userPortfolio : p.portfolioId = portfolioId).firebaseUid
    ELSE NULL

\* A request: its arguments, the owner its ownership check met, and whether
\* its entity differs from the row it loaded.
Tx(op, user, portfolioId, name, currency, ticker, quantity) ==
    [op |-> op, user |-> user, portfolioId |-> portfolioId,
     owner |-> OwnerOf(portfolioId), name |-> name, currency |-> currency,
     ticker |-> ticker, quantity |-> quantity]

\* The request ends: what it answered and whether the tables changed.
Ended(t, ex, up, ph) ==
    /\ userPortfolio' = up
    /\ portfolioHolding' = ph
    /\ outcome' = [op |-> t.op, user |-> t.user, portfolioId |-> t.portfolioId,
                   owner |-> t.owner, name |-> t.name, ticker |-> t.ticker,
                   exception |-> ex,
                   changed |-> (up # userPortfolio \/ ph # portfolioHolding)]

\* The request ends with an exception: its transaction is rolled back.
Throw(t, ex) == Ended(t, ex, userPortfolio, portfolioHolding)

\* A flush that skips the database's constraints.
FlushUnchecked(t) ==
    CASE t.op = "createPortfolio" ->
            Ended(t, NoException,
                  userPortfolio \cup
                    {[Portfolio(t.portfolioId, t.user, t.name)
                        EXCEPT !.baseCurrency = t.currency]},
                  portfolioHolding)
      [] t.op = "updatePortfolio" ->
            Ended(t, NoException,
                  {IF p.portfolioId = t.portfolioId
                   THEN [p EXCEPT !.portfolioName = t.name, !.baseCurrency = t.currency]
                   ELSE p : p \in userPortfolio},
                  portfolioHolding)
      [] t.op = "deletePortfolio" ->
            Ended(t, NoException,
                  {p \in userPortfolio : p.portfolioId # t.portfolioId},
                  portfolioHolding)
      [] t.op = "addHolding" ->
            Ended(t, NoException, userPortfolio,
                  portfolioHolding \cup {<<t.portfolioId, t.ticker, t.quantity>>})
      [] t.op = "updateHolding" ->
            Ended(t, NoException, userPortfolio,
                  (portfolioHolding \ findHoldingById(t.portfolioId, t.ticker))
                    \cup {<<t.portfolioId, t.ticker, t.quantity>>})
      [] OTHER ->
            Ended(t, NoException, userPortfolio,
                  portfolioHolding \ findHoldingById(t.portfolioId, t.ticker))

\* The flush at commit: the INSERT, UPDATE or DELETE the request left pending,
\* against the rows as they are then, under the constraints of the schema.
Flush(t) ==
    LET row == {p \in userPortfolio : p.portfolioId = t.portfolioId}
        held == findHoldingById(t.portfolioId, t.ticker)
    IN CASE t.op = "createPortfolio" ->
                IF existsByFirebaseUidAndPortfolioName(t.user, t.name)
                THEN Throw(t, ConstraintViolation)
                ELSE FlushUnchecked(t)
         [] t.op = "updatePortfolio" ->
                IF row = {} THEN Throw(t, StaleRow)
                ELSE IF \E p \in userPortfolio \ row :
                            p.firebaseUid = t.user /\ p.portfolioName = t.name
                     THEN Throw(t, ConstraintViolation)
                     ELSE FlushUnchecked(t)
         [] t.op = "deletePortfolio" ->
                IF row = {} THEN Throw(t, StaleRow)
                ELSE IF \E h \in portfolioHolding : h[1] = t.portfolioId
                     THEN Throw(t, ConstraintViolation)
                     ELSE FlushUnchecked(t)
         [] t.op = "addHolding" ->
                IF row = {} \/ held # {}
                THEN Throw(t, ConstraintViolation)
                ELSE FlushUnchecked(t)
         [] OTHER ->
                IF held = {} THEN Throw(t, StaleRow) ELSE FlushUnchecked(t)

\* After its reads a writing request commits at once, or, if no other request
\* is waiting, lets other requests run before it commits.
Proceed(t) ==
    \/ Flush(t) /\ UNCHANGED tx
    \/ /\ tx = NoTx
       /\ tx' = t
       /\ UNCHANGED <<userPortfolio, portfolioHolding, outcome>>

engine ==
    <<pc, req, portfolio, holdings, idx, frame, commentaries, result, calls, last,
      retrieval>>

\* UserPortfolioService.getPortfolio
GetPortfolio(portfolioId, firebaseUid) ==
    /\ LET t == Tx("getPortfolio", firebaseUid, portfolioId, NULL, NULL, NULL, 0)
       IN IF findByPortfolioIdAndFirebaseUid(portfolioId, firebaseUid) = {}
          THEN Throw(t, OwnershipFailure(portfolioId, firebaseUid))
          ELSE Ended(t, NoException, userPortfolio, portfolioHolding)
    /\ requests < MaxRequests
    /\ requests' = requests + 1
    /\ UNCHANGED <<tx, nextId, dimTicker, secFilingChunks, engine>>

\* UserPortfolioService.createPortfolio: the id is generated when save is called.
CreatePortfolio(firebaseUid, portfolioName, baseCurrency) ==
    /\ nextId <= MaxPortfolioId
    /\ IF existsByFirebaseUidAndPortfolioName(firebaseUid, portfolioName)
       THEN /\ Throw(Tx("createPortfolio", firebaseUid, 0, portfolioName, NULL, NULL, 0),
                     DuplicatePortfolio)
            /\ UNCHANGED <<tx, nextId>>
       ELSE /\ Proceed(Tx("createPortfolio", firebaseUid, nextId, portfolioName,
                          IF baseCurrency # NULL THEN baseCurrency ELSE "USD", NULL, 0))
            /\ nextId' = nextId + 1
    /\ requests < MaxRequests
    /\ requests' = requests + 1
    /\ UNCHANGED <<dimTicker, secFilingChunks, engine>>

\* UserPortfolioService.updatePortfolio
UpdatePortfolio(portfolioId, firebaseUid, portfolioName, baseCurrency) ==
    /\ LET found == findByPortfolioIdAndFirebaseUid(portfolioId, firebaseUid)
           loaded == CHOOSE p \in found : TRUE
           t == Tx("updatePortfolio", firebaseUid, portfolioId, portfolioName, NULL,
                   NULL, 0)
       IN IF found = {}
          THEN Throw(t, OwnershipFailure(portfolioId, firebaseUid)) /\ UNCHANGED tx
          ELSE IF /\ portfolioName # NULL
                  /\ portfolioName # loaded.portfolioName
                  /\ existsByFirebaseUidAndPortfolioName(firebaseUid, portfolioName)
               THEN Throw(t, DuplicatePortfolio) /\ UNCHANGED tx
               ELSE LET name == IF portfolioName # NULL
                                THEN portfolioName ELSE loaded.portfolioName
                        currency == IF baseCurrency # NULL
                                    THEN baseCurrency ELSE loaded.baseCurrency
                        entity == [t EXCEPT !.name = name, !.currency = currency]
                    IN IF name = loaded.portfolioName /\ currency = loaded.baseCurrency
                       THEN /\ Ended(entity, NoException, userPortfolio, portfolioHolding)
                            /\ UNCHANGED tx
                       ELSE Proceed(entity)
    /\ requests < MaxRequests
    /\ requests' = requests + 1
    /\ UNCHANGED <<nextId, dimTicker, secFilingChunks, engine>>

\* UserPortfolioService.deletePortfolio
DeletePortfolio(portfolioId, firebaseUid) ==
    /\ LET t == Tx("deletePortfolio", firebaseUid, portfolioId, NULL, NULL, NULL, 0)
       IN IF findByPortfolioIdAndFirebaseUid(portfolioId, firebaseUid) = {}
          THEN Throw(t, OwnershipFailure(portfolioId, firebaseUid)) /\ UNCHANGED tx
          ELSE Proceed(t)
    /\ requests < MaxRequests
    /\ requests' = requests + 1
    /\ UNCHANGED <<nextId, dimTicker, secFilingChunks, engine>>

\* PortfolioHoldingService.getHoldings
GetHoldings(portfolioId, firebaseUid) ==
    /\ LET t == Tx("getHoldings", firebaseUid, portfolioId, NULL, NULL, NULL, 0)
       IN IF findByPortfolioIdAndFirebaseUid(portfolioId, firebaseUid) = {}
          THEN Throw(t, OwnershipFailure(portfolioId, firebaseUid))
          ELSE Ended(t, NoException, userPortfolio, portfolioHolding)
    /\ requests < MaxRequests
    /\ requests' = requests + 1
    /\ UNCHANGED <<tx, nextId, dimTicker, secFilingChunks, engine>>

\* PortfolioHoldingService.addHolding
AddHolding(portfolioId, firebaseUid, tickerId, quantity) ==
    /\ LET t == Tx("addHolding", firebaseUid, portfolioId, NULL, NULL, tickerId, quantity)
       IN IF findByPortfolioIdAndFirebaseUid(portfolioId, firebaseUid) = {}
          THEN Throw(t, OwnershipFailure(portfolioId, firebaseUid)) /\ UNCHANGED tx
          ELSE IF existsById(portfolioId, tickerId)
               THEN Throw(t, DuplicateHolding) /\ UNCHANGED tx
               ELSE Proceed(t)
    /\ requests < MaxRequests
    /\ requests' = requests + 1
    /\ UNCHANGED <<nextId, dimTicker, secFilingChunks, engine>>

\* PortfolioHoldingService.updateHolding
UpdateHolding(portfolioId, firebaseUid, tickerId, quantity) ==
    /\ LET t == Tx("updateHolding", firebaseUid, portfolioId, NULL, NULL, tickerId,
                   quantity)
           held == findHoldingById(portfolioId, tickerId)
       IN IF findByPortfolioIdAndFirebaseUid(portfolioId, firebaseUid) = {}
          THEN Throw(t, OwnershipFailure(portfolioId, firebaseUid)) /\ UNCHANGED tx
          ELSE IF held = {}
               THEN Throw(t, HoldingNotFound) /\ UNCHANGED tx
               ELSE IF (CHOOSE h \in held : TRUE)[3] = quantity
                    THEN /\ Ended(t, NoException, userPortfolio, portfolioHolding)
                         /\ UNCHANGED tx
                    ELSE Proceed(t)
    /\ requests < MaxRequests
    /\ requests' = requests + 1
    /\ UNCHANGED <<nextId, dimTicker, secFilingChunks, engine>>

\* PortfolioHoldingService.deleteHolding
DeleteHolding(portfolioId, firebaseUid, tickerId) ==
    /\ LET t == Tx("deleteHolding", firebaseUid, portfolioId, NULL, NULL, tickerId, 0)
       IN IF findByPortfolioIdAndFirebaseUid(portfolioId, firebaseUid) = {}
          THEN Throw(t, OwnershipFailure(portfolioId, firebaseUid)) /\ UNCHANGED tx
          ELSE IF findHoldingById(portfolioId, tickerId) = {}
               THEN Throw(t, HoldingNotFound) /\ UNCHANGED tx
               ELSE Proceed(t)
    /\ requests < MaxRequests
    /\ requests' = requests + 1
    /\ UNCHANGED <<nextId, dimTicker, secFilingChunks, engine>>

\* The waiting request commits.
Commit ==
    /\ tx # NoTx
    /\ Flush(tx)
    /\ tx' = NoTx
    /\ UNCHANGED <<nextId, requests, dimTicker, secFilingChunks, engine>>

InitCrud ==
    /\ userPortfolio = {Portfolio(1, "u1", "Tech"), Portfolio(2, "u2", "Tech")}
    /\ portfolioHolding = {<<1, "AAPL", 1>>}
    /\ dimTicker = {DimTicker("AAPL", "Apple Inc.", "Technology")}
    /\ secFilingChunks = {}
    /\ nextId = 3
    /\ InitRequest

NextCrud ==
    \/ \E portfolioId \in PortfolioIds, firebaseUid \in Users :
         \/ GetPortfolio(portfolioId, firebaseUid)
         \/ DeletePortfolio(portfolioId, firebaseUid)
         \/ GetHoldings(portfolioId, firebaseUid)
         \/ \E portfolioName \in Names \cup {NULL}, baseCurrency \in Currencies \cup {NULL} :
              UpdatePortfolio(portfolioId, firebaseUid, portfolioName, baseCurrency)
         \/ \E tickerId \in HeldTickers :
              \/ DeleteHolding(portfolioId, firebaseUid, tickerId)
              \/ \E quantity \in Quantities :
                   \/ AddHolding(portfolioId, firebaseUid, tickerId, quantity)
                   \/ UpdateHolding(portfolioId, firebaseUid, tickerId, quantity)
    \/ \E firebaseUid \in Users, portfolioName \in Names,
          baseCurrency \in Currencies \cup {NULL} :
         CreatePortfolio(firebaseUid, portfolioName, baseCurrency)
    \/ Commit

SpecCrud == InitCrud /\ [][NextCrud]_vars

\* ================================================== claims on the two services
ScopedOps ==
    {"getPortfolio", "updatePortfolio", "deletePortfolio", "getHoldings",
     "addHolding", "updateHolding", "deleteHolding"}

\* C16: a portfolio-scoped operation by a user who does not own the portfolio,
\* be it another user's or one that does not exist, ends with the same
\* 'Portfolio not found' (404) and changes neither a portfolio nor a holding.
C16_NonOwnerSeesNotFound ==
    (outcome.op \in ScopedOps /\ outcome.owner # outcome.user) =>
        /\ outcome.exception = Exception("ResourceNotFoundException", "Portfolio not found")
        /\ HttpStatus(outcome.exception) = 404
        /\ ~outcome.changed

C16_Witness ==
    /\ outcome.op = "deleteHolding"
    /\ outcome.portfolioId = 3
    /\ outcome.owner = "u2"
    /\ outcome.user = "u1"
    /\ \E h \in portfolioHolding : h[1] = 3
    /\ HttpStatus(outcome.exception) = 404

\* C17: whatever the interleaving of creates, renames and deletes, no user has
\* two portfolios of the same name; a create, or a rename of an own portfolio,
\* to a name another portfolio of the user carries ends with a 409 and changes
\* nothing.
C17_Unique ==
    \A p, q \in userPortfolio :
        (p.firebaseUid = q.firebaseUid /\ p.portfolioName = q.portfolioName) =>
            p.portfolioId = q.portfolioId
C17_NameInUse(o) ==
    /\ o.op \in {"createPortfolio", "updatePortfolio"}
    /\ o.op = "updatePortfolio" =>
         \E p \in userPortfolio :
            p.portfolioId = o.portfolioId /\ p.firebaseUid = o.user
    /\ \E p \in userPortfolio :
         /\ p.firebaseUid = o.user
         /\ p.portfolioName = o.name
         /\ p.portfolioId # o.portfolioId \/ o.op = "createPortfolio"
C17_Ends == (requests' # requests /\ tx' = tx) \/ (tx # NoTx /\ tx' = NoTx)
C17_UniqueNamesPerUser ==
    [][/\ C17_Unique'
       /\ (C17_Ends /\ C17_NameInUse(outcome')) =>
            /\ HttpStatus(outcome'.exception) = 409
            /\ userPortfolio' = userPortfolio
            /\ portfolioHolding' = portfolioHolding]_vars

C17_Witness ==
    /\ outcome.op = "createPortfolio"
    /\ outcome.exception = ConstraintViolation
    /\ \E p, q \in userPortfolio :
        /\ p.portfolioName = q.portfolioName
        /\ p.firebaseUid # q.firebaseUid
        /\ p.portfolioId >= 3
    /\ \E p \in userPortfolio :
        /\ p.firebaseUid = outcome.user
        /\ p.portfolioName = outcome.name
        /\ p.portfolioId >= 3

\* C18: a ticker's pipeline moves lookup, retrieve (embed, search), assemble,
\* generate in this order and ends by adding exactly one entry: the
\* language-model call only follows a non-empty retrieval of the same ticker
\* whose context it carries, a no-data entry only follows an empty retrieval,
\* a success entry only follows a language-model call that returned, and an
\* entry is exactly one of no-data, error and success.
C18_Search(j, k) ==
    calls[k].op = "search" /\ calls[k].idx = j /\ calls[k].raised = NoException
C18_Trace ==
    /\ \A k \in 1..Len(calls) :
        calls[k].op = "generate" =>
            \E n \in 1..(k - 1) :
                /\ C18_Search(calls[k].idx, n)
                /\ calls[n].rows # <<>>
                /\ calls[k].arg = formatChunksAsContext(calls[n].rows)
    /\ \A j \in 1..Len(commentaries) :
        /\ IsNoData(commentaries[j]) =>
            /\ \E n \in 1..Len(calls) : C18_Search(j, n) /\ calls[n].rows = <<>>
            /\ \A n \in 1..Len(calls) : calls[n].idx = j => calls[n].op # "generate"
        /\ IsSuccess(commentaries[j]) =>
            \E k \in 1..Len(calls) :
                /\ calls[k].op = "generate"
                /\ calls[k].idx = j
                /\ calls[k].raised = NoException
                /\ calls[k].text = commentaries[j].commentary
        /\ IsPlaceholder(commentaries[j]) =>
            \/ \E k \in 1..Len(calls) : calls[k].idx = j /\ calls[k].raised # NoException
            \/ \E n \in 1..Len(calls) : C18_Search(j, n) /\ ContextThrows(calls[n].rows)
        /\ Cardinality({b \in {"no data", "error", "success"} :
                \/ b = "no data" /\ commentaries[j].chunksUsed = 0
                                 /\ commentaries[j].companyName # NULL
                \/ b = "error" /\ commentaries[j].chunksUsed = 0
                               /\ commentaries[j].companyName = NULL
                \/ b = "success" /\ commentaries[j].chunksUsed > 0}) = 1
C18_Stage ==
    CASE pc = "lookup" -> "embed"
      [] pc = "embed" -> "search"
      [] pc = "search" -> "assemble"
      [] pc = "assemble" -> "generate"
      [] OTHER -> "none"
C18_Edge ==
    pc \in {"lookup", "embed", "search", "assemble", "generate"} =>
        \/ pc' = C18_Stage /\ commentaries' = commentaries /\ idx' = idx
        \/ /\ pc' \in {"lookup", "respond"}
           /\ Len(commentaries') = Len(commentaries) + 1
           /\ SubSeq(commentaries', 1, Len(commentaries)) = commentaries
           /\ commentaries'[idx].tickerId = holdings[idx]
C18_PipelineStateMachine == [][C18_Trace' /\ C18_Edge]_vars

C18_Witness ==
    /\ pc = "done"
    /\ Len(commentaries) = 2
    /\ \E i, j \in 1..2 :
        /\ IsNoData(commentaries[i])
        /\ IsSuccess(commentaries[j])
        /\ commentaries[j].chunksUsed = 3

\* C19: holdings are processed one after the other in the order of the list:
\* when a remote call of the holding at position j is made, the entries of all
\* holdings before j are in the list, none of j or a later holding is, and no
\* call of a later holding has been made.
C19_NewCall == Len(calls') = Len(calls) + 1 /\ calls'[Len(calls')].op \in RemoteOps
C19_SequentialHoldings ==
    [][C19_NewCall =>
        LET c == calls'[Len(calls')]
        IN /\ Len(commentaries) = c.idx - 1
           /\ c.ticker = holdings[c.idx]
           /\ \A i \in 1..(c.idx - 1) : commentaries[i].tickerId = holdings[i]
           /\ \A k \in 1..Len(calls) : calls[k].idx <= c.idx]_vars

C19_Witness ==
    /\ pc = "assemble"
    /\ idx = 2
    /\ Len(commentaries) = 1
    /\ \E k, n \in 1..Len(calls) :
        /\ k < n
        /\ calls[k].op = "generate"
        /\ calls[k].idx = 1
        /\ calls[n].op = "embed"
        /\ calls[n].idx = 2

\* C20: within one request a holding gets at most one embedding call, one
\* similarity search and one language-model call, and no call is made for a
\* holding after one of its calls raised.
C20_NoRetries ==
    /\ \A j \in 1..Len(holdings), op \in RemoteOps :
        Cardinality({k \in 1..Len(calls) : calls[k].idx = j /\ calls[k].op = op}) <= 1
    /\ \A k, n \in 1..Len(calls) :
        (k < n /\ calls[k].idx = calls[n].idx /\ calls[k].idx > 0) =>
            calls[k].raised = NoException

C20_Witness ==
    /\ pc = "done"
    /\ result.kind = "response"
    /\ \E k, n \in 1..Len(calls) :
        /\ calls[k].raised = SearchError
        /\ calls[k].idx = 1
        /\ calls[n].op = "generate"
        /\ calls[n].raised = GenerationError
        /\ calls[n].idx = 2

\* ------------------------------------------------------------ C21
\* The pieces of the context the current ticker's chunks were assembled into.
C21_Context == frame.context

\* The number of delimiters in the context.
C21_Delimiters ==
    Cardinality({k \in 1..Len(C21_Context) : C21_Context[k].kind = "delimiter"})

\* C21: the context assembled from n >= 1 chunks holds the chunks in retrieval
\* order, each text immediately preceded by its own provenance header (filing
\* type, filing year, filing period, section label), and exactly n - 1
\* delimiters: one between consecutive chunks and none after the last.
C21_ContextInRetrievalOrder ==
    pc = "generate" =>
        LET n == Len(frame.chunks)
        IN /\ n >= 1
           /\ Len(C21_Context) = 3 * n - 1
           /\ C21_Delimiters = n - 1
           /\ C21_Context[Len(C21_Context)].kind = "text"
           /\ \A i \in 1..n :
                LET c == frame.chunks[i]
                    h == C21_Context[3 * i - 2]
                    t == C21_Context[3 * i - 1]
                IN /\ h.kind = "header"
                   /\ h.filingType = c.filingType
                   /\ h.filingYear = SomeInt(c.filingYear)
                   /\ h.filingPeriod = c.filingPeriod
                   /\ h.label = humanReadableItem(c.itemCode)
                   /\ t.kind = "text"
                   /\ t.text = c.chunkText
                   /\ i < n => C21_Context[3 * i].kind = "delimiter"

\* Three chunks were assembled into a context with two delimiters.
C21_Witness ==
    /\ pc = "generate"
    /\ Len(frame.chunks) = 3
    /\ C21_Delimiters = 2
    /\ C21_Context[8].text = frame.chunks[3].chunkText

\* ------------------------------------------------------------ C22
\* The lookup table of the provenance header.
C22_Table ==
    {<<"item_1a", "Item 1A: Risk Factors">>,
     <<"item_3", "Item 3: Legal Proceedings">>,
     <<"item_7", "Item 7: MD&A">>,
     <<"item_7a", "Item 7A: Market Risk Disclosures">>}

C22_InTable(code) == \E e \in C22_Table : e[1] = code

\* The chunks the similarity search returned for holding j.
C22_Rows(j) ==
    LET s == {k \in 1..Len(calls) : calls[k].op = "search" /\ calls[k].idx = j}
    IN IF s = {} THEN <<>> ELSE calls[CHOOSE k \in s : TRUE].rows

C22_Raised(j) ==
    \E k \in 1..Len(calls) : calls[k].idx = j /\ calls[k].raised # NoException

C23_StrictlyDescending ==
    /\ Len(retrieval.chunks) <= MaxChunks
    /\ \A i \in 1..(Len(retrieval.chunks) - 1) :
         retrieval.chunks[i].similarity > retrieval.chunks[i + 1].similarity

\* C23, amended: a result list holds at most K chunks and no chunk is more
\* similar to the query than a chunk before it; chunks at the same distance
\* from the query are all eligible and follow one another with equal similarity.
C23_AtMostKNeverAscending ==
    /\ Len(retrieval.chunks) <= MaxChunks
    /\ \A i, j \in 1..Len(retrieval.chunks) :
         i < j => ~(retrieval.chunks[i].similarity < retrieval.chunks[j].similarity)
    /\ \A i, j \in 1..Len(retrieval.chunks) :
         (i < j /\ retrieval.chunks[i].similarity = retrieval.chunks[j].similarity)
            => \A k \in i..j :
                 retrieval.chunks[k].similarity = retrieval.chunks[i].similarity

\* K chunks were returned out of more, two of them at the same distance from
\* the query.
C23_Witness ==
    /\ retrieval.raised = NoException
    /\ Len(retrieval.chunks) = MaxChunks
    /\ Cardinality(WhereClause(secFilingChunks, retrieval.ticker, retrieval.filingYear))
           > MaxChunks
    /\ \E i \in 1..(Len(retrieval.chunks) - 1) :
         /\ retrieval.chunks[i].similarity = retrieval.chunks[i + 1].similarity
         /\ retrieval.chunks[i] # retrieval.chunks[i + 1]

\* ------------------------------------------------------------ C25
\* A remote call of the current holding (embedding, similarity search or
\* generation) that never returns: the calls are made on the request's own
\* thread, without a timeout, so the loop stays inside the call.
Hang ==
    /\ pc \in {"embed", "search", "generate"}
    /\ pc' = "hung"
    /\ UNCHANGED <<stores, req, portfolio, holdings, idx, frame, commentaries, result,
                   calls, last, retrieval, crud>>

NextSlow == Next \/ Hang

\* The thread of a request takes its next step whenever it has one; a remote
\* call returns, raises or hangs.
SpecSlow == Init /\ [][NextSlow]_vars /\ WF_vars(Next)

\* Every holding but the current one has its entry.
C25_OthersTerminal ==
    \A j \in 1..Len(holdings) : j # idx => j <= Len(commentaries)

\* C25: when a remote call of one holding never returns, the pipelines of all
\* other holdings of the request still eventually reach a terminal state.
C25_SlowTickerDoesNotBlock == (pc = "hung") ~> C25_OthersTerminal

\* ------------------------------------------------------------ C26
\* The language-model call for holding j returned a text.
C26_Generated(j) ==
    \E k \in 1..Len(calls) :
        calls[k].op = "generate" /\ calls[k].idx = j /\ calls[k].raised = NoException

C27_EarlyOps == {"findById", "embed", "search"}

\* The exception holding j's pipeline raised before its generation step, if any.
C27_Raised(j) ==
    {calls[k].raised : k \in {k \in 1..Len(calls) :
        calls[k].idx = j /\ calls[k].op \in C27_EarlyOps /\ calls[k].raised # NoException}}
    \cup {NullItemCode : k \in {k \in 1..Len(calls) :
            /\ calls[k].idx = j
            /\ calls[k].op = "search"
            /\ \E i \in 1..Len(calls[k].rows) : calls[k].rows[i].itemCode = NULL}}

TradedTickers == {"AAPL", "MSFT"}

InitConcurrent ==
    /\ userPortfolio = {Portfolio(1, "u1", "Tech"), Portfolio(2, "u2", "Tech")}
    /\ portfolioHolding = {<<1, "AAPL", 1>>, <<1, "MSFT", 1>>}
    /\ dimTicker = {DimTicker("AAPL", "Apple Inc.", "Technology"),
                    DimTicker("MSFT", NULL, NULL)}
    /\ secFilingChunks = {Row("AAPL", 2023, "10-K", "FY", "item_1a", 0, <<0, 1>>)}
    /\ nextId = 3
    /\ InitRequest

\* The owner's commentary request runs while holding requests and the deletion
\* of the portfolio, each in its own transaction, read and commit.
NextConcurrent ==
    \/ Next
    \/ \E tickerId \in TradedTickers :
         \/ DeleteHolding(1, "u1", tickerId)
         \/ \E quantity \in Quantities :
              \/ AddHolding(1, "u1", tickerId, quantity)
              \/ UpdateHolding(1, "u1", tickerId, quantity)
    \/ DeletePortfolio(1, "u1")
    \/ Commit

SpecConcurrent == InitConcurrent /\ [][NextConcurrent]_vars

\* ------------------------------------------------------------ C28
\* No portfolio holds a ticker twice.
C28_Unique ==
    \A h, g \in portfolioHolding : (h[1] = g[1] /\ h[2] = g[2]) => h = g

\* The tickers of a response's entries are pairwise distinct.
C28_EntriesDistinct ==
    result.kind = "response" =>
        \A i, j \in 1..Len(result.commentaries) :
            i # j => result.commentaries[i].tickerId # result.commentaries[j].tickerId

\* A holding request ends in this step: at once, or at its commit.
C28_EndsAtOnce == requests' # requests /\ tx' = tx
C28_EndsAtCommit == tx # NoTx /\ tx' = NoTx

C29_Stored == {h[2] : h \in {x \in portfolioHolding : x[1] = req.portfolioId}}

\* The holdings list of the request has been loaded.
C29_Loaded == pc \notin {"idle", "load"} /\ holdings # <<>>

\* C29: a commentary request works on the holdings list it loaded: whatever
\* holding requests or deletion of the portfolio commit while its loop runs, the
\* entries built so far are those of the first holdings of the loaded list in
\* the list's order, the response has one entry per loaded holding, and the
\* request does not fail.
C29_WorksOnLoadedList ==
    C29_Loaded =>
        /\ result.kind # "thrown"
        /\ Len(commentaries) <= Len(holdings)
        /\ \A j \in 1..Len(commentaries) : commentaries[j].tickerId = holdings[j]
        /\ result.kind = "response" =>
             /\ Len(result.commentaries) = Len(holdings)
             /\ \A j \in 1..Len(holdings) :
                  result.commentaries[j].tickerId = holdings[j]

\* Both holdings were sold and the portfolio was deleted while the loop ran:
\* the response still has the two entries of the loaded list.
C29_Witness ==
    /\ result.kind = "response"
    /\ Len(holdings) = 2
    /\ Len(result.commentaries) = 2
    /\ C29_Stored = {}
    /\ ~\E p \in userPortfolio : p.portfolioId = req.portfolioId

\* ------------------------------------------------------------ C30
\* The metadata lookup for holding j returned.
C30_LookedUp(j) ==
    \E k \in 1..Len(calls) :
        calls[k].op = "findById" /\ calls[k].idx = j /\ calls[k].raised = NoException

\* C30: an error placeholder carries only the ticker, the prefixed exception
\* message and chunksUsed = 0: company name, sector and filing year are unset,
\* also when the metadata lookup had succeeded before the failure; a no-data
\* entry always carries a company name and a sector.
C30_PlaceholderCarriesNoMetadata ==
    \A j \in 1..Len(commentaries) :
        LET e == commentaries[j]
        IN /\ IsPlaceholder(e) =>
                /\ e.tickerId = holdings[j]
                /\ e.commentary[1] = "Commentary could not be generated: "
                /\ \E ex \in {MetadataError, EmbeddingError, SearchError, NullItemCode,
                              GenerationError} : e.commentary[2] = ex.message
                /\ e.chunksUsed = 0
                /\ e.companyName = NULL
                /\ e.sector = NULL
                /\ e.filingYear = NoInt
           /\ IsNoData(e) =>
                /\ e.companyName # NULL
                /\ e.sector # NULL
                /\ C30_LookedUp(j)

\* The lookup for AAPL returned its name and sector, then the generation
\* failed: the placeholder has neither; the no-data entry of MSFT, whose row
\* has neither, carries the fallbacks.
C30_Witness ==
    /\ result.kind = "response"
    /\ \E i, j \in 1..Len(result.commentaries) :
        /\ IsPlaceholder(result.commentaries[i])
        /\ C30_LookedUp(i)
        /\ holdings[i] = "AAPL"
        /\ CompanyName("AAPL") = "Apple Inc."
        /\ result.commentaries[i].companyName = NULL
        /\ IsNoData(result.commentaries[j])
        /\ result.commentaries[j].companyName = "MSFT"
        /\ result.commentaries[j].sector = "Unknown"

====
